---- MODULE Spec2Model ----
(***************************************************************************)
(* Model of package policy (gwkunze/goiam): the IAM policy document        *)
(* builder (NewPolicy, SetId, AddStatement and the Statement mutators),    *)
(* its JSON encoding (Get, String) and decoding (LoadPolicy).              *)
(*                                                                         *)
(* Go values that can be nil (pointers, slices, maps) are records with a   *)
(* field "nil"; statements live in a heap and are referred to by address,  *)
(* as the policy's []*Statement and the handles AddStatement returns do.   *)
(* JSON text is modelled by its token tree (literals keep their raw text,  *)
(* objects keep the order of their members); Render and RenderIndent give  *)
(* the bytes of a tree.                                                    *)
(***************************************************************************)
EXTENDS Integers, Sequences, FiniteSets, TLC

VARIABLES heap, p, handles, called, pc, data, q, err, text

vars == <<heap, p, handles, called, pc, data, q, err, text>>

(***************************************************************************)
(* Bounds and input sets                                                   *)
(***************************************************************************)

\* The program holds at most this much: a statement counts 2, every element
\* of a principal, action or condition list counts 1.
MaxSize == 4

Ids == {"policy-id", ""}
Sids == {"statement-id"}
Principals == {"*"}
Actions == {"Describe*", "*"}
NotActions == {"*"}
Resources == {"*", ""}
Values == {"10.0.0.0/8", "arn:sns:foo"}

ConditionArnEquals == "ArnEquals"
ConditionStringEquals == "StringEquals"
VarSourceArn == "aws:SourceArn"
VarSourceIp == "aws:SourceIp"

\* The condition types and variables the inputs use, in the byte order of
\* their names (the order in which the encoder writes map keys).
ConditionTypes == <<ConditionArnEquals, ConditionStringEquals>>
ConditionVariables == <<VarSourceArn, VarSourceIp>>

Range(f) == {f[i] : i \in DOMAIN f}

(***************************************************************************)
(* Go values                                                               *)
(***************************************************************************)

NIL == [nil |-> TRUE]
Ref(x) == [nil |-> FALSE, v |-> x]
IsNil(x) == x.nil

Allow == TRUE
Deny == FALSE

PolicyVersion == "struct{}"

\* append(s, x) on a slice that may be nil
GoAppend(s, x) == IF IsNil(s) THEN Ref(<<x>>) ELSE Ref(Append(s.v, x))
GoLen(s) == IF IsNil(s) THEN 0 ELSE Len(s.v)

NewPrincipal == Ref([Aws |-> Ref(<<>>)])

\* The zero value of Statement, what &Statement{} and the decoder start from
ZeroStatement ==
    [Sid |-> NIL, Effect |-> Deny, Principal |-> NIL, NotPrincipal |-> NIL,
     Action |-> NIL, NotAction |-> NIL, Resource |-> "", Condition |-> NIL]

\* a statement that starts out allowing
NewStatementAllowing ==
    [ZeroStatement EXCEPT !.Effect = Allow,
                          !.Principal = NewPrincipal,
                          !.Action = Ref(<<>>),
                          !.Condition = Ref(<<>>)]

NewStatement ==
    [ZeroStatement EXCEPT !.Principal = NewPrincipal,
                          !.Action = Ref(<<>>),
                          !.Condition = Ref(<<>>)]

\* The zero value of Policy, what LoadPolicy's Policy{} starts from
ZeroPolicy == [Version |-> PolicyVersion, Id |-> NIL, Statement |-> NIL]

\* The policy NewPolicy returns a pointer to
EmptyPolicy == [ZeroPolicy EXCEPT !.Statement = Ref(<<>>)]

Policy_SetId(pol, id) == [pol EXCEPT !.Id = Ref(id)]

\* the new statement put in front of the others
Policy_AddStatementInFront(pol, a) ==
    [pol EXCEPT !.Statement =
        IF IsNil(@) THEN Ref(<<a>>) ELSE Ref(<<a>> \o @.v)]

\* p.Statement = append(p.Statement, statement), statement at address a
Policy_AddStatement(pol, a) == [pol EXCEPT !.Statement = GoAppend(pol.Statement, a)]

(***************************************************************************)
(* Statement methods, on the value of the statement. PANIC is the result   *)
(* of a call that faults (nil pointer dereference, write to a nil map).    *)
(***************************************************************************)

PANIC == [panic |-> TRUE]

Statement_SetSid(s, id) == [s EXCEPT !.Sid = Ref(id)]

Statement_AddPrincipal(s, x) ==
    IF IsNil(s.Principal) THEN PANIC
    ELSE [s EXCEPT !.Principal = Ref([Aws |-> GoAppend(s.Principal.v.Aws, x)])]

Statement_AddNotPrincipal(s, x) ==
    LET np == IF IsNil(s.NotPrincipal) THEN NewPrincipal ELSE s.NotPrincipal
    IN  [s EXCEPT !.NotPrincipal = Ref([Aws |-> GoAppend(np.v.Aws, x)])]

Statement_AddAction(s, a) == [s EXCEPT !.Action = GoAppend(s.Action, a)]

Statement_AddNotAction(s, a) == [s EXCEPT !.NotAction = GoAppend(s.NotAction, a)]

\* m[k] = x on a map value
MapPut(m, k, x) == [j \in (DOMAIN m) \cup {k} |-> IF j = k THEN x ELSE m[j]]

\* the value put in place of the values already there
Statement_AddConditionReplacing(s, t, key, value) ==
    IF IsNil(s.Condition) THEN PANIC
    ELSE LET c == s.Condition.v
             inner == IF t \in DOMAIN c THEN c[t] ELSE Ref(<<>>)
         IN  IF IsNil(inner) THEN PANIC
             ELSE [s EXCEPT !.Condition =
                      Ref(MapPut(c, t, Ref(MapPut(inner.v, key, Ref(<<value>>)))))]

Statement_AddCondition(s, t, key, value) ==
    IF IsNil(s.Condition) THEN PANIC
    ELSE LET c == s.Condition.v
             inner == IF t \in DOMAIN c THEN c[t] ELSE Ref(<<>>)
         IN  IF IsNil(inner) THEN PANIC
             ELSE LET vals == IF key \in DOMAIN inner.v THEN inner.v[key]
                              ELSE Ref(<<>>)
                  IN  [s EXCEPT !.Condition =
                          Ref(MapPut(c, t,
                                Ref(MapPut(inner.v, key, GoAppend(vals, value)))))]

Statement_SetEffect(s, e) == [s EXCEPT !.Effect = e]

Statement_SetResource(s, r) == [s EXCEPT !.Resource = r]

(***************************************************************************)
(* Size of what the program holds                                          *)
(***************************************************************************)

RECURSIVE SumOver(_, _)
SumOver(f, S) ==
    IF S = {} THEN 0
    ELSE LET x == CHOOSE y \in S : TRUE IN f[x] + SumOver(f, S \ {x})

PrincipalSize(pr) == IF IsNil(pr) THEN 0 ELSE GoLen(pr.v.Aws)

InnerSize(inner) ==
    IF IsNil(inner) THEN 0
    ELSE SumOver([k \in DOMAIN inner.v |-> GoLen(inner.v[k])], DOMAIN inner.v)

ConditionSize(c) ==
    IF IsNil(c) THEN 0
    ELSE SumOver([t \in DOMAIN c.v |-> InnerSize(c.v[t])], DOMAIN c.v)

StatementSize(s) ==
    2 + PrincipalSize(s.Principal) + PrincipalSize(s.NotPrincipal)
      + GoLen(s.Action) + GoLen(s.NotAction) + ConditionSize(s.Condition)

HeapSize == SumOver([a \in DOMAIN heap |-> StatementSize(heap[a])], DOMAIN heap)

(***************************************************************************)
(* JSON token trees and their bytes                                        *)
(***************************************************************************)

Quote(s) == "\"" \o s \o "\""

JLit(raw) == [t |-> "lit", raw |-> raw]
JStr(s) == JLit(Quote(s))
JNull == JLit("null")
JArr(elems) == [t |-> "arr", elems |-> elems]
JObj(members) == [t |-> "obj", members |-> members]
Member(k, v) == [k |-> k, v |-> v]

Keys(obj) == {obj.members[i].k : i \in DOMAIN obj.members}
HasKey(obj, k) == k \in Keys(obj)
Lookup(obj, k) == (CHOOSE m \in Range(obj.members) : m.k = k).v

RECURSIVE Render(_)
RECURSIVE RenderList(_, _)
\* json.Marshal's compact bytes
Render(v) ==
    CASE v.t = "lit" -> v.raw
      [] v.t = "arr" -> "[" \o RenderList(v.elems, FALSE) \o "]"
      [] v.t = "obj" -> "{" \o RenderList(v.members, TRUE) \o "}"
RenderList(xs, keyed) ==
    IF xs = <<>> THEN ""
    ELSE LET x == Head(xs)
             one == IF keyed THEN Quote(x.k) \o ":" \o Render(x.v) ELSE Render(x)
         IN  IF Len(xs) = 1 THEN one
             ELSE one \o "," \o RenderList(Tail(xs), keyed)

Tab == "    "

RECURSIVE Indent(_)
Indent(n) == IF n = 0 THEN "" ELSE Tab \o Indent(n - 1)

RECURSIVE RenderIndent(_, _)
RECURSIVE RenderIndentList(_, _, _)
\* json.MarshalIndent(v, "", "    ")
RenderIndent(v, n) ==
    CASE v.t = "lit" -> v.raw
      [] v.t = "arr" ->
            IF v.elems = <<>> THEN "[]"
            ELSE "[\n" \o RenderIndentList(v.elems, FALSE, n + 1)
                 \o "\n" \o Indent(n) \o "]"
      [] v.t = "obj" ->
            IF v.members = <<>> THEN "{}"
            ELSE "{\n" \o RenderIndentList(v.members, TRUE, n + 1)
                 \o "\n" \o Indent(n) \o "}"
RenderIndentList(xs, keyed, n) ==
    LET x == Head(xs)
        one == Indent(n) \o (IF keyed THEN Quote(x.k) \o ": " \o RenderIndent(x.v, n)
                             ELSE RenderIndent(x, n))
    IN  IF Len(xs) = 1 THEN one
        ELSE one \o ",\n" \o RenderIndentList(Tail(xs), keyed, n)

(***************************************************************************)
(* Encoding                                                                *)
(***************************************************************************)

PolicyVersion_MarshalJSON == "\"2012-10-17\""

Effect_MarshalJSON(e) == IF e THEN "\"Allow\"" ELSE "\"Deny\""

\* a field tagged omitempty is left out when `empty`
OmitEmpty(empty, k, v) == IF empty THEN <<>> ELSE <<Member(k, v)>>

MarshalStrings(s) ==
    IF IsNil(s) THEN JNull ELSE JArr([i \in DOMAIN s.v |-> JStr(s.v[i])])

MarshalStringPtr(ptr) == IF IsNil(ptr) THEN JNull ELSE JStr(ptr.v)

MarshalPrincipal(pr) ==
    IF IsNil(pr) THEN JNull
    ELSE JObj(<<Member("AWS", MarshalStrings(pr.v.Aws))>>)

\* a map is written with its keys sorted
SortedKeys(order, m) == SelectSeq(order, LAMBDA k : k \in DOMAIN m)

MarshalInner(inner) ==
    IF IsNil(inner) THEN JNull
    ELSE LET ks == SortedKeys(ConditionVariables, inner.v)
         IN  JObj([i \in DOMAIN ks |-> Member(ks[i], MarshalStrings(inner.v[ks[i]]))])

MarshalCondition(c) ==
    IF IsNil(c) THEN JNull
    ELSE LET ks == SortedKeys(ConditionTypes, c.v)
         IN  JObj([i \in DOMAIN ks |-> Member(ks[i], MarshalInner(c.v[ks[i]]))])

MapLen(m) == IF IsNil(m) THEN 0 ELSE Cardinality(DOMAIN m.v)

\* Action tagged omitempty like NotAction
MarshalStatementOmittingAction(s) ==
    JObj(   OmitEmpty(IsNil(s.Sid), "Sid", MarshalStringPtr(s.Sid))
         \o <<Member("Effect", JLit(Effect_MarshalJSON(s.Effect)))>>
         \o <<Member("Principal", MarshalPrincipal(s.Principal))>>
         \o OmitEmpty(IsNil(s.NotPrincipal), "NotPrincipal",
                      MarshalPrincipal(s.NotPrincipal))
         \o OmitEmpty(GoLen(s.Action) = 0, "Action", MarshalStrings(s.Action))
         \o OmitEmpty(GoLen(s.NotAction) = 0, "NotAction", MarshalStrings(s.NotAction))
         \o <<Member("Resource", JStr(s.Resource))>>
         \o OmitEmpty(MapLen(s.Condition) = 0, "Condition",
                      MarshalCondition(s.Condition)))

MarshalStatement(s) ==
    JObj(   OmitEmpty(IsNil(s.Sid), "Sid", MarshalStringPtr(s.Sid))
         \o <<Member("Effect", JLit(Effect_MarshalJSON(s.Effect)))>>
         \o <<Member("Principal", MarshalPrincipal(s.Principal))>>
         \o OmitEmpty(IsNil(s.NotPrincipal), "NotPrincipal",
                      MarshalPrincipal(s.NotPrincipal))
         \o <<Member("Action", MarshalStrings(s.Action))>>
         \o OmitEmpty(GoLen(s.NotAction) = 0, "NotAction", MarshalStrings(s.NotAction))
         \o <<Member("Resource", JStr(s.Resource))>>
         \o OmitEmpty(MapLen(s.Condition) = 0, "Condition",
                      MarshalCondition(s.Condition)))

MarshalStatements(ss) ==
    IF IsNil(ss) THEN JNull
    ELSE JArr([i \in DOMAIN ss.v |-> MarshalStatement(heap[ss.v[i]])])

MarshalPolicy(pol) ==
    JObj(   <<Member("Version", JLit(PolicyVersion_MarshalJSON))>>
         \o OmitEmpty(IsNil(pol.Id), "Id", MarshalStringPtr(pol.Id))
         \o <<Member("Statement", MarshalStatements(pol.Statement))>>)

\* Policy.Get: the bytes (as a token tree); the encoder never fails here
Policy_Get(pol) == MarshalPolicy(pol)

\* Policy.String
Policy_String(pol) == RenderIndent(MarshalPolicy(pol), 0)

(***************************************************************************)
(* Decoding                                                                *)
(***************************************************************************)

Strings ==
    Ids \cup Sids \cup Principals \cup Actions \cup NotActions \cup Resources \cup Values

\* the string a JSON string token stands for
Unquote(raw) == CHOOSE s \in Strings : Quote(s) = raw

\* the bytes of a value, as handed to an UnmarshalJSON method
Raw(v) == IF v.t = "lit" THEN v.raw ELSE Render(v)

IsNull(v) == v.t = "lit" /\ v.raw = "null"

InvalidPolicyVersionError(s) ==
    [nil |-> FALSE, type |-> "InvalidPolicyVersionError", s |-> s]

InvalidEffectError(s) == [nil |-> FALSE, type |-> "InvalidEffectError", s |-> s]

\* the legacy version no longer accepted
PolicyVersion_UnmarshalJSONCurrentOnly(b) ==
    IF b = "\"2012-10-17\"" THEN NIL ELSE InvalidPolicyVersionError(b)

\* the error PolicyVersion.UnmarshalJSON returns (NIL: none)
PolicyVersion_UnmarshalJSON(b) ==
    IF b = "\"2012-10-17\"" \/ b = "\"2008-10-17\"" THEN NIL
    ELSE InvalidPolicyVersionError(b)

\* the effect reset on an unknown literal
Effect_UnmarshalJSONResetting(e, b) ==
    IF b = "\"Allow\"" THEN [e |-> TRUE, err |-> NIL]
    ELSE IF b = "\"Deny\"" THEN [e |-> FALSE, err |-> NIL]
    ELSE [e |-> FALSE, err |-> InvalidEffectError(b)]

\* (*Effect).UnmarshalJSON on an effect holding e: the effect after, the error
Effect_UnmarshalJSON(e, b) ==
    IF b = "\"Allow\"" THEN [e |-> TRUE, err |-> NIL]
    ELSE IF b = "\"Deny\"" THEN [e |-> FALSE, err |-> NIL]
    ELSE [e |-> e, err |-> InvalidEffectError(b)]

Ok(x) == [val |-> x, err |-> NIL]

\* the element of a one-element set: The({F(r) : r \in {e}}) is F(e) with e
\* evaluated once
The(S) == CHOOSE x \in S : TRUE

UnmarshalString(v, old) == IF IsNull(v) THEN old ELSE Unquote(v.raw)

UnmarshalStringPtr(v) == IF IsNull(v) THEN NIL ELSE Ref(Unquote(v.raw))

UnmarshalStrings(v) ==
    IF IsNull(v) THEN NIL
    ELSE Ref([i \in DOMAIN v.elems |-> Unquote(v.elems[i].raw)])

RECURSIVE UnmarshalPrincipalFrom(_, _)
UnmarshalPrincipalFrom(ms, pr) ==
    IF ms = <<>> THEN pr
    ELSE LET m == Head(ms)
         IN  UnmarshalPrincipalFrom(Tail(ms),
                 IF m.k = "AWS" THEN [pr EXCEPT !.Aws = UnmarshalStrings(m.v)]
                 ELSE pr)

UnmarshalPrincipal(v, old) ==
    IF IsNull(v) THEN NIL
    ELSE Ref(UnmarshalPrincipalFrom(v.members,
                                    IF IsNil(old) THEN [Aws |-> NIL] ELSE old.v))

RECURSIVE UnmarshalInnerFrom(_, _)
UnmarshalInnerFrom(ms, m) ==
    IF ms = <<>> THEN m
    ELSE UnmarshalInnerFrom(Tail(ms),
                            MapPut(m, Head(ms).k, UnmarshalStrings(Head(ms).v)))

UnmarshalInner(v) == IF IsNull(v) THEN NIL ELSE Ref(UnmarshalInnerFrom(v.members, <<>>))

RECURSIVE UnmarshalConditionFrom(_, _)
UnmarshalConditionFrom(ms, m) ==
    IF ms = <<>> THEN m
    ELSE UnmarshalConditionFrom(Tail(ms),
                                MapPut(m, Head(ms).k, UnmarshalInner(Head(ms).v)))

UnmarshalCondition(v, old) ==
    IF IsNull(v) THEN NIL
    ELSE Ref(UnmarshalConditionFrom(v.members, IF IsNil(old) THEN <<>> ELSE old.v))

\* one member of a statement object, decoded into the statement s
UnmarshalStatementMember(s, m) ==
    CASE m.k = "Sid" -> Ok([s EXCEPT !.Sid = UnmarshalStringPtr(m.v)])
      [] m.k = "Effect" ->
            LET r == Effect_UnmarshalJSON(s.Effect, Raw(m.v))
            IN  [val |-> [s EXCEPT !.Effect = r.e], err |-> r.err]
      [] m.k = "Principal" ->
            Ok([s EXCEPT !.Principal = UnmarshalPrincipal(m.v, s.Principal)])
      [] m.k = "NotPrincipal" ->
            Ok([s EXCEPT !.NotPrincipal = UnmarshalPrincipal(m.v, s.NotPrincipal)])
      [] m.k = "Action" -> Ok([s EXCEPT !.Action = UnmarshalStrings(m.v)])
      [] m.k = "NotAction" -> Ok([s EXCEPT !.NotAction = UnmarshalStrings(m.v)])
      [] m.k = "Resource" -> Ok([s EXCEPT !.Resource = UnmarshalString(m.v, s.Resource)])
      [] m.k = "Condition" ->
            Ok([s EXCEPT !.Condition = UnmarshalCondition(m.v, s.Condition)])
      [] OTHER -> Ok(s)

\* the members of an object in the order they are written; the first error
\* ends the decoding
RECURSIVE UnmarshalStatementFrom(_, _)
UnmarshalStatementFrom(ms, s) ==
    IF ms = <<>> THEN Ok(s)
    ELSE The({IF ~IsNil(r.err) THEN r ELSE UnmarshalStatementFrom(Tail(ms), r.val) :
                 r \in {UnmarshalStatementMember(s, Head(ms))}})

RECURSIVE UnmarshalStatementsFrom(_, _)
UnmarshalStatementsFrom(elems, acc) ==
    IF elems = <<>> THEN Ok(Ref(acc))
    ELSE The({IF ~IsNil(r.err) THEN r
              ELSE UnmarshalStatementsFrom(Tail(elems), Append(acc, r.val)) :
                 r \in {UnmarshalStatementFrom(Head(elems).members, ZeroStatement)}})

UnmarshalStatements(v) ==
    IF IsNull(v) THEN Ok(NIL) ELSE UnmarshalStatementsFrom(v.elems, <<>>)

\* the Version member skipped like an unknown one
UnmarshalPolicyMemberUnchecked(pol, m) ==
    CASE m.k = "Id" -> Ok([pol EXCEPT !.Id = UnmarshalStringPtr(m.v)])
      [] m.k = "Statement" ->
            The({[val |-> [pol EXCEPT !.Statement = r.val], err |-> r.err] :
                    r \in {UnmarshalStatements(m.v)}})
      [] OTHER -> Ok(pol)

UnmarshalPolicyMember(pol, m) ==
    CASE m.k = "Version" -> [val |-> pol, err |-> PolicyVersion_UnmarshalJSON(Raw(m.v))]
      [] m.k = "Id" -> Ok([pol EXCEPT !.Id = UnmarshalStringPtr(m.v)])
      [] m.k = "Statement" ->
            The({[val |-> [pol EXCEPT !.Statement = r.val], err |-> r.err] :
                    r \in {UnmarshalStatements(m.v)}})
      [] OTHER -> Ok(pol)

RECURSIVE UnmarshalPolicyFrom(_, _)
UnmarshalPolicyFrom(ms, pol) ==
    IF ms = <<>> THEN Ok(pol)
    ELSE The({IF ~IsNil(r.err) THEN r ELSE UnmarshalPolicyFrom(Tail(ms), r.val) :
                 r \in {UnmarshalPolicyMember(pol, Head(ms))}})

\* json.Unmarshal(b, &p) on p := Policy{}: the policy, its statements held
\* by value, and the error
Unmarshal(b) == UnmarshalPolicyFrom(b.members, ZeroPolicy)

\* LoadPolicy: no policy alongside an error
Policy_Load(b) ==
    The({IF ~IsNil(r.err) THEN [val |-> NIL, err |-> r.err]
         ELSE [val |-> Ref(r.val), err |-> NIL] : r \in {Unmarshal(b)}})

(***************************************************************************)
(* Documents handed to LoadPolicy from outside: well-formed JSON objects   *)
(* with the Version and Effect tokens, the presence of the optional and    *)
(* the required members, and the order of the top-level members varied.    *)
(* The token "" stands for a member that is left out.                      *)
(***************************************************************************)

VersionTokens == {"", "\"2012-10-17\"", "\"2008-10-17\"", "\"2009-10-17\"", "null"}
EffectTokens == {"", "\"Allow\"", "\"Deny\"", "\"allow\"", "null"}
Shapes == {"bare", "fresh", "cond"}

OptLit(k, tok) == IF tok = "" THEN <<>> ELSE <<Member(k, JLit(tok))>>

StatementDoc(shape, eff) ==
    CASE shape = "bare" ->
            JObj(OptLit("Effect", eff) \o <<Member("Resource", JStr("*"))>>)
      [] shape = "fresh" ->
            JObj(   OptLit("Effect", eff)
                 \o <<Member("Principal", JObj(<<Member("AWS", JArr(<<>>))>>)),
                      Member("Action", JArr(<<>>)),
                      Member("Resource", JStr(""))>>)
      [] shape = "cond" ->
            JObj(   <<Member("Sid", JStr("statement-id"))>>
                 \o OptLit("Effect", eff)
                 \o <<Member("Principal", JObj(<<Member("AWS", JArr(<<>>))>>)),
                      Member("Action", JArr(<<>>)),
                      Member("Resource", JStr("*")),
                      Member("Condition",
                          JObj(<<Member(ConditionArnEquals,
                              JObj(<<Member(VarSourceIp,
                                  JArr(<<JStr("10.0.0.0/8")>>))>>))>>))>>)

StatementLists ==
    {<<>>} \cup {<<StatementDoc(sh, e)>> : sh \in Shapes, e \in EffectTokens}

PolicyDoc(v, ss, versionFirst) ==
    IF versionFirst
    THEN JObj(OptLit("Version", v) \o <<Member("Statement", JArr(ss))>>)
    ELSE JObj(<<Member("Statement", JArr(ss))>> \o OptLit("Version", v))

\* every statement list under the current version, and every version token in
\* either member order over a few lists
VersionLists == {<<>>, <<StatementDoc("fresh", "\"Allow\"")>>,
                 <<StatementDoc("fresh", "\"allow\"")>>}

Documents ==
         {PolicyDoc("\"2012-10-17\"", ss, TRUE) : ss \in StatementLists}
    \cup {PolicyDoc(v, ss, f) : v \in VersionTokens, ss \in VersionLists, f \in BOOLEAN}

(***************************************************************************)
(* The program: a client that either builds a policy with NewPolicy and    *)
(* the builder calls and encodes it, or is handed a document; loads the    *)
(* bytes with LoadPolicy; and goes on to add to the loaded policy and to   *)
(* encode it again. pc is its position:                                    *)
(*   start     nothing done yet                                            *)
(*   build     p is being built                                            *)
(*   encoded   data holds the bytes to load                                *)
(*   loaded    LoadPolicy has just returned the policy q                   *)
(*   failed    LoadPolicy has returned an error                            *)
(*   extended  a method has been called on a statement of q                *)
(*   reencoded data holds the bytes of q                                   *)
(*   printed   text holds the result of String                             *)
(*   panic     a call has faulted                                          *)
(***************************************************************************)

Init ==
    /\ heap = <<>>
    /\ p = NIL
    /\ handles = <<>>
    /\ called = {}
    /\ pc = "start"
    /\ data = NIL
    /\ q = NIL
    /\ err = NIL
    /\ text = ""

\* the policy the program works on
Cur == IF pc = "build" THEN p ELSE q

\* the statements the program holds a pointer to
Held ==
    CASE pc = "build" -> Range(handles)
      [] pc \in {"loaded", "extended"} /\ ~IsNil(q.v.Statement) ->
            Range(q.v.Statement.v)
      [] OTHER -> {}

\* a policy with its statements by value
Deep(pol) ==
    [pol EXCEPT !.Statement =
        IF IsNil(@) THEN NIL ELSE Ref([i \in DOMAIN @.v |-> heap[@.v[i]]])]

NewPolicy ==
    /\ pc = "start"
    /\ p' = Ref(EmptyPolicy)
    /\ pc' = "build"
    /\ UNCHANGED <<heap, handles, called, data, q, err, text>>

Input(b) ==
    /\ pc = "start"
    /\ data' = b
    /\ pc' = "encoded"
    /\ UNCHANGED <<heap, p, handles, called, q, err, text>>

SetId(id) ==
    /\ pc = "build"
    /\ p' = Ref(Policy_SetId(p.v, id))
    /\ called' = called \cup {<<"SetId", 0>>}
    /\ UNCHANGED <<heap, handles, pc, data, q, err, text>>

AddStatement ==
    /\ pc = "build"
    /\ heap' = Append(heap, NewStatement)
    /\ p' = Ref(Policy_AddStatement(p.v, Len(heap) + 1))
    /\ handles' = Append(handles, Len(heap) + 1)
    /\ UNCHANGED <<called, pc, data, q, err, text>>

\* the calls `called` keeps a record of: those that set an optional field
Recorded == {"SetId", "SetSid", "AddNotPrincipal", "AddNotAction", "AddCondition"}

\* a method call on the statement at h that leaves the statement s2, or faults
Mutate(h, name, s2) ==
    /\ IF s2 = PANIC
       THEN pc' = "panic" /\ UNCHANGED <<heap, called>>
       ELSE /\ heap' = [heap EXCEPT ![h] = s2]
            /\ called' = IF name \in Recorded THEN called \cup {<<name, h>>} ELSE called
            /\ pc' = IF pc = "loaded" THEN "extended" ELSE pc
    /\ UNCHANGED <<p, handles, data, q, err, text>>

\* the handles AddStatement returned, while the policy is being built
Handles == IF pc = "build" THEN Range(handles) ELSE {}

SetSid(h, id) == Mutate(h, "SetSid", Statement_SetSid(heap[h], id))

\* stmt.Effect = e
SetEffect(h, e) == Mutate(h, "Effect", Statement_SetEffect(heap[h], e))

\* stmt.Resource = r
SetResource(h, r) == Mutate(h, "Resource", Statement_SetResource(heap[h], r))

AddPrincipal(h, x) == Mutate(h, "AddPrincipal", Statement_AddPrincipal(heap[h], x))

AddNotPrincipal(h, x) == Mutate(h, "AddNotPrincipal", Statement_AddNotPrincipal(heap[h], x))

AddAction(h, a) == Mutate(h, "AddAction", Statement_AddAction(heap[h], a))

AddNotAction(h, a) == Mutate(h, "AddNotAction", Statement_AddNotAction(heap[h], a))

AddCondition(h, t, key, value) ==
    Mutate(h, "AddCondition", Statement_AddCondition(heap[h], t, key, value))

Get ==
    /\ pc \in {"build", "loaded", "extended"}
    /\ data' = Policy_Get(Cur.v)
    /\ pc' = IF pc = "build" THEN "encoded" ELSE "reencoded"
    /\ UNCHANGED <<heap, p, handles, called, q, err, text>>

String ==
    /\ pc \in {"build", "loaded", "extended"}
    /\ text' = Policy_String(Cur.v)
    /\ pc' = "printed"
    /\ UNCHANGED <<heap, p, handles, called, data, q, err>>

LoadPolicy ==
    /\ pc = "encoded"
    /\ \E r \in {Policy_Load(data)} :
           /\ err' = r.err
           /\ IF IsNil(r.val)
              THEN q' = NIL /\ heap' = heap /\ pc' = "failed"
              ELSE LET ss == r.val.v.Statement
                   IN  /\ pc' = "loaded"
                       /\ IF IsNil(ss)
                          THEN q' = r.val /\ heap' = heap
                          ELSE /\ heap' = heap \o ss.v
                               /\ q' = Ref([r.val.v EXCEPT !.Statement =
                                       Ref([i \in DOMAIN ss.v |-> Len(heap) + i])])
    /\ UNCHANGED <<p, handles, called, data, text>>

\* room for one more list element, for one more statement
Room == HeapSize < MaxSize
RoomForStatement == HeapSize + StatementSize(NewStatement) <= MaxSize

Next ==
    \/ NewPolicy
    \/ \E b \in Documents : Input(b)
    \/ \E id \in Ids : SetId(id)
    \/ RoomForStatement /\ AddStatement
    \/ \E h \in Handles, id \in Sids : SetSid(h, id)
    \/ \E h \in Handles, e \in {Allow, Deny} : SetEffect(h, e)
    \/ \E h \in Handles, r \in Resources : SetResource(h, r)
    \/ Room /\ \E h \in Held, x \in Principals : AddPrincipal(h, x)
    \/ Room /\ \E h \in Held, x \in Principals : AddNotPrincipal(h, x)
    \/ Room /\ \E h \in Held, a \in Actions : AddAction(h, a)
    \/ Room /\ \E h \in Held, a \in NotActions : AddNotAction(h, a)
    \/ Room /\ \E h \in Held, t \in Range(ConditionTypes),
                  key \in Range(ConditionVariables), value \in Values :
                      AddCondition(h, t, key, value)
    \/ Get
    \/ String
    \/ LoadPolicy

Spec == Init /\ [][Next]_vars

(***************************************************************************)
(* The program of ExampleNewPolicy: its calls, each made once, the calls   *)
(* on the statement in any order, and String at any point.                 *)
(***************************************************************************)

ExampleNext ==
    \/ NewPolicy
    \/ SetId("policy-id")
    \/ handles = <<>> /\ AddStatement
    \/ \E h \in Handles : SetSid(h, "statement-id")
    \/ \E h \in Handles : SetEffect(h, Allow)
    \/ \E h \in Handles : PrincipalSize(heap[h].Principal) = 0 /\ AddPrincipal(h, "*")
    \/ \E h \in Handles : GoLen(heap[h].Action) = 0 /\ AddAction(h, "Describe*")
    \/ \E h \in Handles : SetResource(h, "*")
    \/ \E h \in Handles :
          /\ ConditionSize(heap[h].Condition) = 0
          /\ AddCondition(h, ConditionArnEquals, VarSourceIp, "10.0.0.0/8")
    \/ String

SpecExample == Init /\ [][ExampleNext]_vars

(***************************************************************************)
(* Claims                                                                  *)
(***************************************************************************)

\* LoadPolicy has just returned, for the bytes in data
JustLoaded == pc \in {"loaded", "failed"}

\* the bytes in data are those Get gives for the built policy p
RoundTrip == JustLoaded /\ ~IsNil(p) /\ data = Policy_Get(p.v)

\* C1: for every policy p built by NewPolicy and the builder calls,
\* LoadPolicy(Get(p)) succeeds and returns a policy equal to p field for
\* field (id, statements in order, every field of every statement).
RoundTripLaw ==
    RoundTrip => /\ pc = "loaded"
                 /\ IsNil(err)
                 /\ ~IsNil(q)
                 /\ Deep(q.v) = Deep(p.v)

\* the Version token of a document ("" when it has no Version member)
VersionToken(b) == IF HasKey(b, "Version") THEN Raw(Lookup(b, "Version")) ELSE ""

Accepted == {"\"2012-10-17\"", "\"2008-10-17\""}

\* the document b with its Version member left out, with another token in it
Without(b, k) == JObj(SelectSeq(b.members, LAMBDA m : m.k # k))
WithVersion(b, tok) ==
    JObj([i \in DOMAIN b.members |->
            IF b.members[i].k = "Version" THEN Member("Version", JLit(tok))
            ELSE b.members[i]])

\* nothing but the Version member can make the decoding of b fail
OtherwiseWellFormed(b) == IsNil(Unmarshal(Without(b, "Version")).err)

\* the members of b written before its Version member decode without error
Position(b, k) == CHOOSE i \in DOMAIN b.members : b.members[i].k = k
ReachesVersion(b) ==
    /\ HasKey(b, "Version")
    /\ IsNil(UnmarshalPolicyFrom(SubSeq(b.members, 1, Position(b, "Version") - 1),
                                 ZeroPolicy).err)

\* C2: a document with Version "2012-10-17" or "2008-10-17" (and nothing else
\* wrong) loads, to the same policy for either literal, and that policy
\* encodes with Version "2012-10-17"; a document whose Version is any other
\* token fails, when the decoder comes to it, with an
\* InvalidPolicyVersionError that carries the raw token, and LoadPolicy
\* returns no policy.
VersionContract ==
    JustLoaded =>
        /\ (VersionToken(data) \in Accepted /\ OtherwiseWellFormed(data)) =>
              /\ pc = "loaded" /\ IsNil(err) /\ ~IsNil(q)
              /\ Lookup(Policy_Get(q.v), "Version") = JLit("\"2012-10-17\"")
              /\ \A tok \in Accepted :
                    Policy_Load(WithVersion(data, tok)) = [val |-> Ref(Deep(q.v)),
                                                           err |-> NIL]
        /\ (ReachesVersion(data) /\ VersionToken(data) \notin Accepted) =>
              /\ pc = "failed" /\ IsNil(q)
              /\ err = InvalidPolicyVersionError(VersionToken(data))

\* a document with the legacy version and a statement has been loaded
VersionContractWitness ==
    /\ pc = "loaded"
    /\ VersionToken(data) = "\"2008-10-17\""
    /\ Len(q.v.Statement.v) = 1

\* the Effect tokens of the statements of a document, in order ("" for a
\* statement without an Effect member)
EffectToken(st) == IF HasKey(st, "Effect") THEN Raw(Lookup(st, "Effect")) ELSE ""
EffectTokensOf(b) ==
    LET ss == Lookup(b, "Statement")
    IN  IF IsNull(ss) THEN <<>> ELSE [i \in DOMAIN ss.elems |-> EffectToken(ss.elems[i])]

EffectLiterals == {"\"Allow\"", "\"Deny\""}

\* the first Effect token of b that is neither "Allow" nor "Deny"
BadEffects(b) == SelectSeq(EffectTokensOf(b), LAMBDA tok : tok \notin EffectLiterals \cup {""})

\* the decoder comes to the statements of b: its Version member is written
\* after them, or holds an accepted literal, or is missing
ReachesStatements(b) ==
    \/ ~HasKey(b, "Version")
    \/ VersionToken(b) \in Accepted
    \/ Position(b, "Statement") < Position(b, "Version")

\* C3: Allow encodes to "Allow" and Deny to "Deny", "Allow" decodes to Allow
\* and "Deny" to Deny, so decoding an encoded effect gives it back; any other
\* effect token fails with an InvalidEffectError carrying the raw token,
\* leaves the target effect unchanged, and makes LoadPolicy return no policy.
EffectContract ==
    /\ Effect_MarshalJSON(Allow) = "\"Allow\""
    /\ Effect_MarshalJSON(Deny) = "\"Deny\""
    /\ \A e \in BOOLEAN, target \in BOOLEAN :
          /\ Effect_UnmarshalJSON(target, Effect_MarshalJSON(e)) = [e |-> e, err |-> NIL]
          /\ \A tok \in EffectTokens \ (EffectLiterals \cup {""}) :
                Effect_UnmarshalJSON(target, tok) =
                    [e |-> target, err |-> InvalidEffectError(tok)]
    /\ JustLoaded =>
          /\ (BadEffects(data) # <<>>) => pc = "failed" /\ IsNil(q)
          /\ (BadEffects(data) # <<>> /\ ReachesStatements(data)) =>
                err = InvalidEffectError(Head(BadEffects(data)))
          /\ pc = "loaded" =>
                \A i \in DOMAIN EffectTokensOf(data) :
                    EffectTokensOf(data)[i] \in EffectLiterals =>
                        (heap[q.v.Statement.v[i]].Effect = Allow
                            <=> EffectTokensOf(data)[i] = "\"Allow\"")

\* LoadPolicy has failed on the effect token "allow" of a document whose
\* version is accepted
EffectContractWitness ==
    /\ pc = "failed"
    /\ err = InvalidEffectError("\"allow\"")
    /\ VersionToken(data) \in Accepted

\* the statement ExampleNewPolicy builds
ExampleStatement ==
    Statement_AddCondition(
        Statement_SetResource(
            Statement_AddAction(
                Statement_AddPrincipal(
                    Statement_SetEffect(Statement_SetSid(NewStatement, "statement-id"),
                                        Allow),
                    "*"),
                "Describe*"),
            "*"),
        ConditionArnEquals, VarSourceIp, "10.0.0.0/8")

\* the program has made every call of ExampleNewPolicy and printed the policy
ExamplePrinted ==
    /\ pc = "printed"
    /\ p.v.Id = Ref("policy-id")
    /\ handles = <<1>>
    /\ heap = <<ExampleStatement>>

\* the output ExampleNewPolicy expects
ExampleOutput ==
       "{\n"
    \o "    \"Version\": \"2012-10-17\",\n"
    \o "    \"Id\": \"policy-id\",\n"
    \o "    \"Statement\": [\n"
    \o "        {\n"
    \o "            \"Sid\": \"statement-id\",\n"
    \o "            \"Effect\": \"Allow\",\n"
    \o "            \"Principal\": {\n"
    \o "                \"AWS\": \"*\"\n"
    \o "            },\n"
    \o "            \"Action\": [\n"
    \o "                \"Describe*\"\n"
    \o "            ],\n"
    \o "            \"Resource\": \"*\",\n"
    \o "            \"Condition\": {\n"
    \o "                \"ArnEquals\": {\n"
    \o "                    \"aws:SourceIp\": [\n"
    \o "                        \"10.0.0.0/8\"\n"
    \o "                    ]\n"
    \o "                }\n"
    \o "            }\n"
    \o "        }\n"
    \o "    ]\n"
    \o "}"

\* C7: String() of the policy ExampleNewPolicy builds is the example's
\* reference document, byte for byte: keys in the order Version, Id,
\* Statement and Sid, Effect, Principal, Action, Resource, Condition, and
\* the one principal written as the plain string "*".
ExampleGolden == ExamplePrinted => text = ExampleOutput

\* the statements of the policy the program works on
Reachable ==
    IF pc \in {"loaded", "extended", "reencoded"} /\ ~IsNil(q) /\ ~IsNil(q.v.Statement)
    THEN Range(q.v.Statement.v)
    ELSE Range(handles)

\* C10: every statement of a policy, made by AddStatement or by a successful
\* LoadPolicy, has its principal set and its condition map allocated, so no
\* AddPrincipal, AddNotPrincipal, AddAction, AddNotAction or AddCondition on
\* it faults, and its Principal and Action are encoded as collections, never
\* as null.
StatementsAllocated ==
    /\ pc # "panic"
    /\ \A a \in Reachable :
          /\ ~IsNil(heap[a].Principal)
          /\ ~IsNil(heap[a].Condition)
          /\ Lookup(MarshalStatement(heap[a]), "Principal") # JNull
          /\ Lookup(MarshalStatement(heap[a]), "Action") # JNull

\* C9 as stated: LoadPolicy returns a policy only for a document that has a
\* Version member holding "2012-10-17" or "2008-10-17"; a document without a
\* Version member is rejected like one with any other version.
VersionRequired ==
    JustLoaded => (pc = "loaded" => VersionToken(data) \in Accepted)

\* C9 as the code has it: LoadPolicy returns a policy only for a document
\* whose Version member, if it has one, holds "2012-10-17" or "2008-10-17".
\* A Version member with any other token is rejected with an error and
\* yields no policy; a document that is otherwise well-formed and has no
\* Version member is accepted, and its policy encodes with "2012-10-17".
VersionCheckedWhenPresent ==
    JustLoaded =>
        /\ pc = "loaded" => VersionToken(data) \in Accepted \cup {""}
        /\ VersionToken(data) \notin Accepted \cup {""} =>
              pc = "failed" /\ IsNil(q) /\ ~IsNil(err)
        /\ (VersionToken(data) = "" /\ OtherwiseWellFormed(data)) =>
              /\ pc = "loaded" /\ IsNil(err) /\ ~IsNil(q)
              /\ Lookup(Policy_Get(q.v), "Version") = JLit("\"2012-10-17\"")

\* a document without a Version member has been loaded
VersionCheckedWhenPresentWitness ==
    /\ pc = "loaded"
    /\ ~HasKey(data, "Version")
    /\ Len(q.v.Statement.v) = 1

\* the encoding doc with the Effect value of its i-th statement replaced
WithEffect(doc, i, tok) ==
    LET ss == Lookup(doc, "Statement")
        st == ss.elems[i]
        st2 == JObj([j \in DOMAIN st.members |->
                        IF st.members[j].k = "Effect" THEN Member("Effect", JLit(tok))
                        ELSE st.members[j]])
    IN  JObj([j \in DOMAIN doc.members |->
                IF doc.members[j].k = "Statement"
                THEN Member("Statement", JArr([ss.elems EXCEPT ![i] = st2]))
                ELSE doc.members[j]])

\* C4: a statement's effect is Allow only if Allow was assigned to it or it
\* was decoded from the literal "Allow": the statement AddStatement returns
\* has effect Deny; the effect of an existing statement changes only in a
\* step that assigns it (so SetId, AddStatement, SetSid and the Add calls
\* leave every effect alone); a loaded statement has effect Allow only if its
\* Effect token is "Allow"; and assigning Allow changes nothing but the
\* Effect value of that statement in the encoding.
FailClosed ==
    [][ /\ AddStatement => heap'[handles'[Len(handles')]].Effect = Deny
        /\ \A a \in DOMAIN heap :
              heap'[a].Effect # heap[a].Effect =>
                  a \in Handles /\ SetEffect(a, heap'[a].Effect)
        /\ (pc = "encoded" /\ pc' = "loaded") =>
              \A i \in DOMAIN EffectTokensOf(data) :
                  heap'[q'.v.Statement.v[i]].Effect = Allow =>
                      EffectTokensOf(data)[i] = "\"Allow\""
        /\ \A i \in DOMAIN handles :
              (pc = "build" /\ SetEffect(handles[i], Allow)) =>
                  Policy_Get(p.v)' = WithEffect(Policy_Get(p.v), i, "\"Allow\"")
      ]_vars

\* Allow has been assigned to a statement nothing else was done to, next to a
\* statement that was left as AddStatement made it
FailClosedWitness ==
    /\ pc = "build"
    /\ Len(handles) = 2
    /\ heap[handles[1]] = NewStatement
    /\ heap[handles[2]] = Statement_SetEffect(NewStatement, Allow)

Optional == {"Sid", "NotPrincipal", "NotAction", "Condition"}
Empty == {JNull, JStr(""), JArr(<<>>), JObj(<<>>)}

\* C5: in the encoding of a policy built from NewPolicy, Id is present iff
\* SetId was called, and in each statement Sid iff SetSid, NotPrincipal iff
\* AddNotPrincipal, NotAction iff AddNotAction, Condition iff AddCondition was
\* called on it; a key that is present for a collection is never null or
\* empty; Version, Statement, Effect, Principal, Action and Resource are
\* always present, Principal as {"AWS":[]}, Action as [] and Resource as ""
\* when nothing was added or assigned, Statement as [] without statements.
FieldPresence ==
    ~IsNil(p) =>
        LET doc == Policy_Get(p.v)
            ss == Lookup(doc, "Statement")
        IN  /\ {"Version", "Statement"} \subseteq Keys(doc)
            /\ Keys(doc) \subseteq {"Version", "Id", "Statement"}
            /\ HasKey(doc, "Id") <=> <<"SetId", 0>> \in called
            /\ HasKey(doc, "Id") => Lookup(doc, "Id") = JStr(p.v.Id.v)
            /\ ss.t = "arr"
            /\ DOMAIN ss.elems = DOMAIN handles
            /\ \A i \in DOMAIN handles :
                  LET st == ss.elems[i]
                      h == handles[i]
                      Was(name) == <<name, h>> \in called
                  IN  /\ {"Effect", "Principal", "Action", "Resource"} \subseteq Keys(st)
                      /\ Keys(st) \subseteq
                            {"Effect", "Principal", "Action", "Resource"} \cup Optional
                      /\ HasKey(st, "Sid") <=> Was("SetSid")
                      /\ HasKey(st, "NotPrincipal") <=> Was("AddNotPrincipal")
                      /\ HasKey(st, "NotAction") <=> Was("AddNotAction")
                      /\ HasKey(st, "Condition") <=> Was("AddCondition")
                      /\ HasKey(st, "Sid") => Lookup(st, "Sid") # JNull
                      /\ \A k \in (Optional \ {"Sid"}) \cap Keys(st) :
                            Lookup(st, k) \notin Empty
                      /\ HasKey(st, "NotPrincipal") =>
                            Lookup(Lookup(st, "NotPrincipal"), "AWS") \notin Empty
                      /\ Lookup(st, "Effect") \in {JStr("Allow"), JStr("Deny")}
                      /\ Lookup(st, "Principal").t = "obj"
                      /\ Lookup(Lookup(st, "Principal"), "AWS").t = "arr"
                      /\ Lookup(st, "Action").t = "arr"
                      /\ PrincipalSize(heap[h].Principal) = 0 =>
                            Lookup(st, "Principal") = JObj(<<Member("AWS", JArr(<<>>))>>)
                      /\ GoLen(heap[h].Action) = 0 => Lookup(st, "Action") = JArr(<<>>)
                      /\ heap[h].Resource = "" => Lookup(st, "Resource") = JStr("")

\* the empty string was set as Id, and NotAction and Condition were added to
\* a statement that has neither Sid nor NotPrincipal
FieldPresenceWitness ==
    /\ ~IsNil(p)
    /\ p.v.Id = Ref("")
    /\ \E h \in Range(handles) :
          /\ {<<"AddNotAction", h>>, <<"AddCondition", h>>} \subseteq called
          /\ <<"SetSid", h>> \notin called
          /\ <<"AddNotPrincipal", h>> \notin called

\* condition[t][key] of a condition map c, NIL when either level is absent
Entry(c, t, key) ==
    IF t \in DOMAIN c.v /\ key \in DOMAIN c.v[t].v THEN c.v[t].v[key] ELSE NIL

\* C6: on a statement made by AddStatement, AddCondition(t, key, value)
\* leaves condition[t][key] equal to what it was (empty if t or key was
\* absent) with value appended at the end, so values accumulate in order and
\* duplicates are kept; every other entry of the condition map and every
\* other field of the statement is unchanged.
AddConditionAccumulates ==
    [][ \A h \in Handles, t \in Range(ConditionTypes),
           key \in Range(ConditionVariables), value \in Values :
            AddCondition(h, t, key, value) =>
                LET old == heap[h].Condition
                    new == heap'[h].Condition
                    prev == IF IsNil(Entry(old, t, key)) THEN <<>>
                            ELSE Entry(old, t, key).v
                IN  /\ pc' = "build"
                    /\ Entry(new, t, key) = Ref(Append(prev, value))
                    /\ \A t2 \in Range(ConditionTypes),
                          k2 \in Range(ConditionVariables) :
                            <<t2, k2>> # <<t, key>> =>
                                Entry(new, t2, k2) = Entry(old, t2, k2)
                    /\ DOMAIN new.v = DOMAIN old.v \cup {t}
                    /\ [heap'[h] EXCEPT !.Condition = old] = heap[h]
      ]_vars

\* the same value was added twice under one type and variable
AddConditionAccumulatesWitness ==
    /\ pc = "build"
    /\ \E h \in Range(handles) :
          Entry(heap[h].Condition, ConditionArnEquals, VarSourceArn)
              = Ref(<<"arn:sns:foo", "arn:sns:foo">>)

\* a call of a Statement method, or an assignment to a field, through h
MutatorStep(h) ==
    \/ \E id \in Sids : SetSid(h, id)
    \/ \E e \in {Allow, Deny} : SetEffect(h, e)
    \/ \E r \in Resources : SetResource(h, r)
    \/ \E x \in Principals : AddPrincipal(h, x)
    \/ \E x \in Principals : AddNotPrincipal(h, x)
    \/ \E a \in Actions : AddAction(h, a)
    \/ \E a \in NotActions : AddNotAction(h, a)
    \/ \E t \in Range(ConditionTypes), key \in Range(ConditionVariables),
          value \in Values : AddCondition(h, t, key, value)

\* C8: the statements of a built policy are encoded in the order in which
\* AddStatement made them; the k-th handle returned refers to the k-th
\* statement of the policy, also after later AddStatement calls; a call
\* through one handle changes that statement alone, leaving every other
\* statement, the policy's id and the number and order of its statements.
StatementOrder ==
    /\ [](~IsNil(p) =>
            /\ p.v.Statement = Ref(handles)
            /\ \A k \in DOMAIN handles :
                  Lookup(Policy_Get(p.v), "Statement").elems[k]
                      = MarshalStatement(heap[handles[k]]))
    /\ [][ /\ AddStatement =>
                 /\ \A a \in DOMAIN heap : heap'[a] = heap[a]
                 /\ \A k \in DOMAIN handles : handles'[k] = handles[k]
                 /\ Len(handles') = Len(handles) + 1
                 /\ handles'[Len(handles')] \notin Range(handles)
                 /\ p'.v.Id = p.v.Id
           /\ \A h \in Handles :
                 MutatorStep(h) =>
                     /\ \A a \in DOMAIN heap \ {h} : heap'[a] = heap[a]
                     /\ DOMAIN heap' = DOMAIN heap
                     /\ p' = p
                     /\ handles' = handles
         ]_vars

\* two statements that differ, the first one changed after the second was made
StatementOrderWitness ==
    /\ pc = "build"
    /\ Len(handles) = 2
    /\ heap[handles[1]] = Statement_SetSid(NewStatement, "statement-id")
    /\ heap[handles[2]] = Statement_SetResource(NewStatement, "*")

====
